---- MODULE Spec2Model ----
(***************************************************************************)
(* File Tree Viewer (src/app.py): a main window over a file-system model,  *)
(* a tree view, a search box driving a capped depth-first expand walk, a   *)
(* folder chooser, a pattern-filter dialog and a context menu.             *)
(*                                                                         *)
(* Text is modelled as sequences of one-character strings so that strip,   *)
(* lower, split, join, substring search, wildcard matching and path        *)
(* normalisation are computed, not assumed.  The file system is a fixed    *)
(* directory tree (it does not change while the program runs) with every   *)
(* directory already populated in the model.                               *)
(***************************************************************************)
EXTENDS Integers, Sequences, FiniteSets, TLC

(* ---------------------------- bounds ---------------------------------- *)
\* number of files in the directory /w/big in the interactive specification
SmallBulk == 1
\* number of files in /w/big in the specification of the capped walk
BigBulk == 4100

(* ------------------------ program constants --------------------------- *)
\* max_nodes passed by _filter_tree
MaxNodes == 4000
CopiedMs == 2500
FilterMs == 4000
ClearedMs == 2500

(* ------------------------------ text ---------------------------------- *)
UpperAlpha == <<"A","B","C","D","E","F","G","H","I","J","K","L","M",
                "N","O","P","Q","R","S","T","U","V","W","X","Y","Z">>
LowerAlpha == <<"a","b","c","d","e","f","g","h","i","j","k","l","m",
                "n","o","p","q","r","s","t","u","v","w","x","y","z">>

\* str.lower() on one character
LowerChar(c) ==
    IF \E i \in 1..26 : UpperAlpha[i] = c
    THEN LowerAlpha[CHOOSE i \in 1..26 : UpperAlpha[i] = c]
    ELSE c

\* str.lower()
Lower(s) == [i \in 1..Len(s) |-> LowerChar(s[i])]

IsSpace(c) == c = " "

RECURSIVE LStrip(_)
LStrip(s) == IF s # <<>> /\ IsSpace(Head(s)) THEN LStrip(Tail(s)) ELSE s

RECURSIVE RStrip(_)
RStrip(s) ==
    IF s # <<>> /\ IsSpace(s[Len(s)]) THEN RStrip(SubSeq(s, 1, Len(s) - 1)) ELSE s

\* str.strip()
Strip(s) == RStrip(LStrip(s))

\* str.split(sep) for a one-character separator: always at least one part
RECURSIVE SplitAcc(_, _, _, _)
SplitAcc(s, sep, cur, acc) ==
    IF s = <<>> THEN Append(acc, cur)
    ELSE IF Head(s) = sep THEN SplitAcc(Tail(s), sep, <<>>, Append(acc, cur))
    ELSE SplitAcc(Tail(s), sep, Append(cur, Head(s)), acc)

Split(s, sep) == SplitAcc(s, sep, <<>>, <<>>)

\* sep.join(parts)
RECURSIVE Join(_, _)
Join(parts, sep) ==
    IF parts = <<>> THEN <<>>
    ELSE IF Len(parts) = 1 THEN parts[1]
    ELSE parts[1] \o sep \o Join(Tail(parts), sep)

\* mutant: the test  needle in name  is missing, every visited node is expanded
Contains_Always(needle, name) == TRUE

\* the Python expression  needle in name
Contains(needle, name) ==
    \E i \in 0..(Len(name) - Len(needle)) :
        SubSeq(name, i + 1, i + Len(needle)) = needle

NonEmpty(p) == p # <<>>

\* mutant: the parts are not stripped
patterns_NoStrip(text) ==
    LET raw == Strip(text) IN
    IF raw = <<>> THEN <<>> ELSE SelectSeq(Split(raw, ";"), NonEmpty)

\* FilterDialog.patterns
patterns(text) ==
    LET raw == Strip(text) IN
    IF raw = <<>> THEN <<>>
    ELSE LET parts == [i \in 1..Len(Split(raw, ";")) |-> Strip(Split(raw, ";")[i])]
         IN  SelectSeq(parts, NonEmpty)

\* wildcard match of a whole name (* and ?), as the model's name filters do
RECURSIVE Glob(_, _)
Glob(p, s) ==
    IF p = <<>> THEN s = <<>>
    ELSE IF Head(p) = "*"
         THEN Glob(Tail(p), s) \/ (s # <<>> /\ Glob(p, Tail(s)))
    ELSE s # <<>> /\ (Head(p) = "?" \/ Head(p) = Head(s)) /\ Glob(Tail(p), Tail(s))

\* name filters compare case-insensitively (QDir.CaseSensitive is not set)
GlobMatch(p, name) == Glob(Lower(p), Lower(name))

(* ------------------------------ state --------------------------------- *)
VARIABLES
    bulk,               \* number of files in the directory /w/big (fixed by Init)
    root,               \* tree.rootIndex()
    search,             \* search.text()
    status,             \* status bar: [text, ms]; ms = 0 is a permanent message
    expanded,           \* the tree view's set of expanded indexes
    nameFilters,        \* model.nameFilters()
    nameFilterDisables, \* model.nameFilterDisables()
    selection,          \* tree.selectionModel().selectedRows(0)
    clipboard,          \* QApplication.clipboard().text()
    shell,              \* path last handed to os.startfile, <<>> if none
    warning,            \* text of the warning dialog shown by the last operation
    updatesEnabled,     \* tree.updatesEnabled()
    pc,                 \* "idle", "menu" (inside menu.exec), "walk" (inside the walk loop)
    needle,             \* _expand_matching_under: needle
    stack,              \* _expand_matching_under: stack
    remaining,          \* _expand_matching_under: remaining
    visited,            \* history: valid indexes popped by the running walk
    pops,               \* history: number of pops of the running walk
    lastOp,             \* history: the handler that ran last ("view": the user
                        \* acted on a widget directly)
    lastArg             \* history: the text that handler was given

vars == <<bulk, root, search, status, expanded, nameFilters, nameFilterDisables,
          selection, clipboard, shell, warning, updatesEnabled, pc, needle,
          stack, remaining, visited, pops, lastOp, lastArg>>

walkVars == <<needle, stack, remaining, visited, pops>>

(* --------------------------- file system ------------------------------ *)
\* the invalid QModelIndex
Invalid == 0
Top == 1
Cwd == 2
Big == 3
Doc == 4
Src == 5
LastFixed == 10

\*            1        2        3                4                5
fsName == << <<"/">>, <<"w">>, <<"b","i","g">>, <<"d","o","c">>, <<"s","r","c">>,
\*            6                     7                     8
             <<"R",".","P","Y">>, <<"h",".","p","y">>, <<"c",".","m","d">>,
\*            9                     10
             <<"a",".","p","y">>, <<"b",".","m","d">> >>
fsParent == <<Invalid, Top, Cwd, Cwd, Cwd, Cwd, Cwd, Doc, Src, Src>>
fsDirs == {Top, Cwd, Big, Doc, Src}
\* entries with the hidden attribute
fsHidden == {7}

Nodes == 1..(LastFixed + bulk)

RECURSIVE Digits(_)
Digits(n) ==
    LET d == <<"0","1","2","3","4","5","6","7","8","9">>[(n % 10) + 1] IN
    IF n < 10 THEN <<d>> ELSE Append(Digits(n \div 10), d)

\* model.fileName(idx)
fileName(n) == IF n <= LastFixed THEN fsName[n] ELSE <<"f">> \o Digits(n - LastFixed)

\* idx.parent()
parent(n) == IF n <= LastFixed THEN fsParent[n] ELSE Big

\* model.isDir(idx)
isDir(n) == n \in fsDirs

\* every entry of a directory in the view's sort order (column 0 ascending:
\* directories first, then by name)
AllRows(n) ==
    CASE n = Top -> <<Cwd>>
      [] n = Cwd -> <<Big, Doc, Src, 7, 6>>
      [] n = Big -> [i \in 1..bulk |-> LastFixed + i]
      [] n = Doc -> <<8>>
      [] n = Src -> <<9, 10>>
      [] OTHER   -> <<>>

\* the model's filter: AllDirs | Files | NoDotAndDotDot (no Hidden), and the
\* name filters, which hide files only and only while nameFilterDisables is off
\* mutant: the name filters are applied to directories too (no AllDirs)
ListedWith_DirsToo(n, filters, disables) ==
    /\ n \notin fsHidden
    /\ \/ disables
       \/ filters = <<>>
       \/ \E i \in 1..Len(filters) : GlobMatch(filters[i], fileName(n))

ListedWith(n, filters, disables) ==
    /\ n \notin fsHidden
    /\ \/ isDir(n)
       \/ disables
       \/ filters = <<>>
       \/ \E i \in 1..Len(filters) : GlobMatch(filters[i], fileName(n))

Listed(n) == ListedWith(n, nameFilters, nameFilterDisables)

\* model.index(r, 0, idx) for r in 0..model.rowCount(idx)-1
Rows(n) == SelectSeq(AllRows(n), Listed)

Reverse(s) == [i \in 1..Len(s) |-> s[Len(s) + 1 - i]]

\* model.filePath(idx)
RECURSIVE filePath(_)
filePath(n) ==
    IF n = Top THEN <<"/">>
    ELSE IF parent(n) = Top THEN <<"/">> \o fileName(n)
    ELSE filePath(parent(n)) \o <<"/">> \o fileName(n)

\* Path.cwd()
CwdPath == filePath(Cwd)

\* os.path.normpath on the components of an absolute path
RECURSIVE NormParts(_, _)
NormParts(parts, acc) ==
    IF parts = <<>> THEN acc
    ELSE LET c == Head(parts) IN
         IF c = <<>> \/ c = <<".">> THEN NormParts(Tail(parts), acc)
         ELSE IF c = <<".", ".">>
              THEN NormParts(Tail(parts),
                             IF acc = <<>> THEN acc ELSE SubSeq(acc, 1, Len(acc) - 1))
         ELSE NormParts(Tail(parts), Append(acc, c))

\* os.path.abspath(folder)
abspath(folder) ==
    LET joined == IF folder # <<>> /\ Head(folder) = "/" THEN folder
                  ELSE CwdPath \o <<"/">> \o folder
    IN  <<"/">> \o Join(NormParts(Split(joined, "/"), <<>>), <<"/">>)

RECURSIVE ResolveFrom(_, _)
ResolveFrom(n, parts) ==
    IF parts = <<>> THEN n
    ELSE LET kids == {AllRows(n)[i] : i \in 1..Len(AllRows(n))}
             hit == {c \in kids : fileName(c) = Head(parts)}
         IN  IF hit = {} THEN Invalid
             ELSE ResolveFrom(CHOOSE c \in hit : TRUE, Tail(parts))

\* model.index(path) for an absolute, normalised path
index(path) == ResolveFrom(Top, SelectSeq(Split(path, "/"), NonEmpty))

\* mutant: os.path.exists instead of os.path.isdir
isdir_Exists(path) == index(path) # Invalid

\* os.path.isdir(path)
isdir(path) == index(path) # Invalid /\ isDir(index(path))

\* mutant: only the matching index is expanded, not its parents
SelfOnly(n) == IF n = Invalid THEN {} ELSE {n}

\* the indexes tree.expand is called on for a matching idx (idx and its parents)
RECURSIVE SelfAndParents(_)
SelfAndParents(n) == IF n = Invalid THEN {} ELSE {n} \cup SelfAndParents(parent(n))

\* rows the view shows without the user expanding anything: listed entries
\* below the root all of whose parents below the root are expanded
RECURSIVE Shown(_)
Shown(n) ==
    /\ n # Invalid
    /\ n # root
    /\ Listed(n)
    /\ parent(n) # Invalid
    /\ \/ parent(n) = root
       \/ parent(n) \in expanded /\ Shown(parent(n))

(* --------------------------- status texts ----------------------------- *)
sRoot == <<"R","o","o","t",":"," ">>
sCopied == <<"C","o","p","i","e","d",":"," ">>
sFilter == <<"F","i","l","t","e","r",":"," ">>
sCleared == <<"F","i","l","e"," ","p","a","t","t","e","r","n"," ",
              "f","i","l","t","e","r"," ","c","l","e","a","r","e","d">>
sNotDir == <<"T","h","a","t"," ","p","a","t","h"," ","i","s"," ","n","o","t"," ",
             "a"," ","d","i","r","e","c","t","o","r","y",":","\n">>

\* mutant: the message is the bare path
RootStatus_NoPrefix(path) == [text |-> path, ms |-> 0]

\* _set_status_root
RootStatus(path) == [text |-> sRoot \o path, ms |-> 0]

NoStatus == [text |-> <<>>, ms |-> 0]

(* ------------------------------ Init ---------------------------------- *)
\* MainWindow.__init__
Startup ==
    /\ root = Cwd
    /\ search = <<>>
    /\ status = RootStatus(CwdPath)
    /\ expanded = {}
    /\ nameFilters = <<>>
    /\ nameFilterDisables = TRUE
    /\ selection = <<>>
    /\ clipboard = <<>>
    /\ shell = <<>>
    /\ warning = <<>>
    /\ updatesEnabled = TRUE
    /\ pc = "idle"
    /\ needle = <<>>
    /\ stack = <<>>
    /\ remaining = 0
    /\ visited = {}
    /\ pops = 0
    /\ lastOp = "init"
    /\ lastArg = <<>>

Init == bulk = SmallBulk /\ Startup

(* ------------------------------ inputs -------------------------------- *)
\* texts typed into the search box: "", " ", " PY"
SearchTexts == { <<>>, <<" ">>, <<" ","P","Y">> }

\* results of the folder picker: "" (cancelled), "src", "/w/src/..",
\* "/w/R.PY" (a file), "nope" (no such entry)
PickerResults ==
    { <<>>,
      <<"s","r","c">>,
      <<"/","w","/","s","r","c","/",".",".">>,
      <<"/","w","/","R",".","P","Y">>,
      <<"n","o","p","e">> }

\* rows the user clicks or right-clicks: /w/doc and /w/src/b.md
ClickRows == {Doc, 10}

\* rows the user expands or collapses by hand
ToggleRows == {Doc, Src}

\* texts entered in the filter dialog: "", " ; ", "*.py", " *.md ;; *.py "
DialogTexts ==
    { <<>>,
      <<" ",";"," ">>,
      <<"*",".","p","y">>,
      <<" ","*",".","m","d"," ",";",";"," ","*",".","p","y"," ">> }

(* ----------------------------- operations ----------------------------- *)
\* search.setText(t): textChanged fires only when the text changes and runs
\* _apply_name_filter -> _filter_tree -> (needle non-empty) the walk loop
SetText(t) ==
    /\ search' = t
    /\ IF t = search
       THEN /\ pc' = "idle"
            /\ UNCHANGED <<expanded, updatesEnabled, walkVars>>
       ELSE LET text == Lower(Strip(t)) IN
            IF text = <<>>
            THEN /\ expanded' = {}
                 /\ pc' = "idle"
                 /\ UNCHANGED <<updatesEnabled, walkVars>>
            ELSE /\ expanded' = {}
                 /\ updatesEnabled' = FALSE
                 /\ needle' = text
                 /\ stack' = <<root>>
                 /\ remaining' = MaxNodes
                 /\ visited' = {}
                 /\ pops' = 0
                 /\ pc' = "walk"

\* the user edits the search box
SearchEdited(t) ==
    /\ pc = "idle"
    /\ t # search
    /\ SetText(t)
    /\ warning' = <<>>
    /\ lastOp' = "search"
    /\ lastArg' = t
    /\ UNCHANGED <<bulk, root, status, nameFilters, nameFilterDisables,
                   selection, clipboard, shell>>

\* the "Reset search" button
ResetSearch ==
    /\ pc = "idle"
    /\ SetText(<<>>)
    /\ warning' = <<>>
    /\ lastOp' = "reset"
    /\ lastArg' = <<>>
    /\ UNCHANGED <<bulk, root, status, nameFilters, nameFilterDisables,
                   selection, clipboard, shell>>

\* mutant: the loop runs until the stack is empty
LoopCond_NoCap == stack # <<>>

\* the loop condition of _expand_matching_under
LoopCond == stack # <<>> /\ remaining > 0

\* one iteration of the loop of _expand_matching_under
WalkStep ==
    /\ pc = "walk"
    /\ LoopCond
    /\ LET idx == stack[Len(stack)]
           rest == SubSeq(stack, 1, Len(stack) - 1)
       IN  /\ remaining' = remaining - 1
           /\ pops' = pops + 1
           /\ IF idx = Invalid
              THEN /\ stack' = rest
                   /\ UNCHANGED <<expanded, visited>>
              ELSE /\ visited' = visited \cup {idx}
                   /\ expanded' = IF Contains(needle, Lower(fileName(idx)))
                                  THEN expanded \cup SelfAndParents(idx)
                                  ELSE expanded
                   /\ stack' = IF isDir(idx) THEN rest \o Reverse(Rows(idx)) ELSE rest
    /\ UNCHANGED <<bulk, root, search, status, nameFilters, nameFilterDisables,
                   selection, clipboard, shell, warning, updatesEnabled, pc,
                   needle, lastOp, lastArg>>

\* the loop ends; _expand_matching_under and _filter_tree return
WalkDone ==
    /\ pc = "walk"
    /\ ~LoopCond
    /\ pc' = "idle"
    /\ updatesEnabled' = TRUE
    /\ needle' = <<>>
    /\ stack' = <<>>
    /\ remaining' = 0
    /\ visited' = {}
    /\ pops' = 0
    /\ UNCHANGED <<bulk, root, search, status, expanded, nameFilters,
                   nameFilterDisables, selection, clipboard, shell, warning, lastOp,
                   lastArg>>

\* mutant: set_root clears the search text before it checks the path
choose_folder_ClearFirst(chosen) ==
    /\ pc \in {"idle", "menu"}
    /\ IF chosen = <<>>
       THEN /\ pc' = "idle"
            /\ warning' = <<>>
            /\ lastOp' = "choose_cancel"
            /\ UNCHANGED <<root, search, status, expanded, updatesEnabled, walkVars>>
       ELSE LET folder == abspath(chosen) IN
            IF ~isdir(folder)
            THEN /\ warning' = sNotDir \o folder
                 /\ SetText(<<>>)
                 /\ lastOp' = "set_root"
                 /\ UNCHANGED <<root, status>>
            ELSE /\ root' = index(folder)
                 /\ status' = RootStatus(folder)
                 /\ SetText(<<>>)
                 /\ warning' = <<>>
                 /\ lastOp' = "set_root"
    /\ lastArg' = chosen
    /\ UNCHANGED <<bulk, nameFilters, nameFilterDisables, selection, clipboard, shell>>

\* choose_folder with the picker's result, and set_root
choose_folder(chosen) ==
    /\ pc \in {"idle", "menu"}
    /\ IF chosen = <<>>
       THEN /\ pc' = "idle"
            /\ warning' = <<>>
            /\ lastOp' = "choose_cancel"
            /\ UNCHANGED <<root, search, status, expanded, updatesEnabled, walkVars>>
       ELSE LET folder == abspath(chosen) IN
            IF ~isdir(folder)
            THEN /\ warning' = sNotDir \o folder
                 /\ pc' = "idle"
                 /\ lastOp' = "set_root"
                 /\ UNCHANGED <<root, search, status, expanded, updatesEnabled, walkVars>>
            ELSE /\ root' = index(folder)
                 /\ status' = RootStatus(folder)
                 /\ SetText(<<>>)
                 /\ warning' = <<>>
                 /\ lastOp' = "set_root"
    /\ lastArg' = chosen
    /\ UNCHANGED <<bulk, nameFilters, nameFilterDisables, selection, clipboard, shell>>

\* mutant: the row's name instead of its path
selected_path_Name == IF selection = <<>> THEN <<>> ELSE fileName(selection[1])

\* selected_path
selected_path == IF selection = <<>> THEN <<>> ELSE filePath(selection[1])

\* copy_selected_path
copy_selected_path ==
    /\ pc \in {"idle", "menu"}
    /\ pc' = "idle"
    /\ LET path == selected_path IN
       IF path = <<>>
       THEN UNCHANGED <<clipboard, status>>
       ELSE /\ clipboard' = path
            /\ status' = [text |-> sCopied \o path, ms |-> CopiedMs]
    /\ warning' = <<>>
    /\ lastOp' = "copy"
    /\ lastArg' = <<>>
    /\ UNCHANGED <<bulk, root, search, expanded, nameFilters, nameFilterDisables,
                   selection, shell, updatesEnabled, walkVars>>

\* os.path.dirname of a file's absolute path
dirname(n) == filePath(parent(n))

\* open_in_explorer
open_in_explorer ==
    /\ pc \in {"idle", "menu"}
    /\ pc' = "idle"
    /\ LET path == selected_path IN
       IF path = <<>>
       THEN UNCHANGED shell
       ELSE shell' = IF isdir(path) THEN path ELSE dirname(selection[1])
    /\ warning' = <<>>
    /\ lastOp' = "reveal"
    /\ lastArg' = <<>>
    /\ UNCHANGED <<bulk, root, search, status, expanded, nameFilters,
                   nameFilterDisables, selection, clipboard, updatesEnabled, walkVars>>

\* model.setNameFilters / setNameFilterDisables: rows that stop being listed
\* are removed from the model, and with them from the selection and from the
\* view's expanded indexes
SetFilters(filters, disables) ==
    LET Keep(n) == ListedWith(n, filters, disables) IN
    /\ nameFilters' = filters
    /\ nameFilterDisables' = disables
    /\ selection' = SelectSeq(selection, Keep)
    /\ expanded' = {n \in expanded : Keep(n)}

\* mutant: the filter is cleared without a status message
ClearFilter_Silent ==
    /\ SetFilters(<<>>, TRUE)
    /\ UNCHANGED status

\* clear_pattern_filter
ClearFilter ==
    /\ SetFilters(<<>>, TRUE)
    /\ status' = [text |-> sCleared, ms |-> ClearedMs]

\* the "Clear file pattern filter" action
clear_pattern_filter ==
    /\ pc = "idle"
    /\ ClearFilter
    /\ warning' = <<>>
    /\ lastOp' = "clear"
    /\ lastArg' = <<>>
    /\ UNCHANGED <<bulk, root, search, clipboard, shell, updatesEnabled, pc, walkVars>>

\* filter_by_patterns: the dialog is accepted or rejected with the given text
filter_by_patterns(accepted, text) ==
    /\ pc = "idle"
    /\ IF ~accepted
       THEN UNCHANGED <<nameFilters, nameFilterDisables, selection, expanded, status>>
       ELSE IF patterns(text) = <<>>
            THEN ClearFilter
            ELSE /\ SetFilters(patterns(text), FALSE)
                 /\ status' = [text |-> sFilter \o Join(patterns(text), <<";">>),
                               ms |-> FilterMs]
    /\ warning' = <<>>
    /\ lastOp' = IF accepted THEN "patterns" ELSE "patterns_rejected"
    /\ lastArg' = text
    /\ UNCHANGED <<bulk, root, search, clipboard, shell, updatesEnabled, pc, walkVars>>

\* _open_context_menu at a row (or at no row: Invalid), up to menu.exec
_open_context_menu(idx) ==
    /\ pc = "idle"
    /\ idx = Invalid \/ Shown(idx)
    /\ selection' = IF idx # Invalid THEN <<idx>> ELSE selection
    /\ pc' = "menu"
    /\ warning' = <<>>
    /\ lastOp' = "menu"
    /\ lastArg' = <<>>
    /\ UNCHANGED <<bulk, root, search, status, expanded, nameFilters,
                   nameFilterDisables, clipboard, shell, updatesEnabled, walkVars>>

\* the context menu is dismissed without choosing an action
MenuDismiss ==
    /\ pc = "menu"
    /\ pc' = "idle"
    /\ warning' = <<>>
    /\ lastOp' = "menu"
    /\ lastArg' = <<>>
    /\ UNCHANGED <<bulk, root, search, status, expanded, nameFilters,
                   nameFilterDisables, selection, clipboard, shell,
                   updatesEnabled, walkVars>>

\* the user clicks a row of the tree (single selection)
Select(idx) ==
    /\ pc = "idle"
    /\ Shown(idx)
    /\ selection' = <<idx>>
    /\ warning' = <<>>
    /\ lastOp' = "view"
    /\ lastArg' = <<>>
    /\ UNCHANGED <<bulk, root, search, status, expanded, nameFilters,
                   nameFilterDisables, clipboard, shell, updatesEnabled, pc, walkVars>>

\* the user expands or collapses a directory row by hand
Toggle(idx) ==
    /\ pc = "idle"
    /\ Shown(idx)
    /\ isDir(idx)
    /\ expanded' = IF idx \in expanded THEN expanded \ {idx} ELSE expanded \cup {idx}
    /\ warning' = <<>>
    /\ lastOp' = "view"
    /\ lastArg' = <<>>
    /\ UNCHANGED <<bulk, root, search, status, nameFilters, nameFilterDisables,
                   selection, clipboard, shell, updatesEnabled, pc, walkVars>>

\* a status message shown with a timeout disappears
StatusTimeout ==
    /\ pc = "idle"
    /\ status.ms > 0
    /\ status' = NoStatus
    /\ warning' = <<>>
    /\ lastOp' = "view"
    /\ lastArg' = <<>>
    /\ UNCHANGED <<bulk, root, search, expanded, nameFilters, nameFilterDisables,
                   selection, clipboard, shell, updatesEnabled, pc, walkVars>>

Next ==
    \/ \E t \in SearchTexts : SearchEdited(t)
    \/ ResetSearch
    \/ WalkStep
    \/ WalkDone
    \/ \E chosen \in PickerResults : choose_folder(chosen)
    \/ copy_selected_path
    \/ open_in_explorer
    \/ clear_pattern_filter
    \/ \E accepted \in BOOLEAN, text \in DialogTexts : filter_by_patterns(accepted, text)
    \/ \E idx \in ClickRows \cup {Invalid} : _open_context_menu(idx)
    \/ MenuDismiss
    \/ \E idx \in ClickRows : Select(idx)
    \/ \E idx \in ToggleRows : Toggle(idx)
    \/ StatusTimeout

Spec == Init /\ [][Next]_vars

(* -------------------- the capped walk on a huge folder ---------------- *)
\* texts typed into the search box: "", "f4"
CapTexts == { <<>>, <<"f","4">> }

InitCap == bulk = BigBulk /\ Startup

NextCap ==
    \/ \E t \in CapTexts : SearchEdited(t)
    \/ WalkStep
    \/ WalkDone

SpecCap == InitCap /\ [][NextCap]_vars

(* ------------------------------ claims -------------------------------- *)
\* C2: one run of the search walk pops at most MaxNodes (4000) indexes, valid
\* or not, and the loop cannot continue once 4000 were popped, even with
\* indexes left on the stack.
C2_VisitCap ==
    /\ pops <= MaxNodes
    /\ Cardinality(visited) <= pops
    /\ (pc = "walk" /\ pops = MaxNodes => ~LoopCond)

\* the cap was used up with indexes still on the stack
C2_Witness == pc = "walk" /\ pops = MaxNodes /\ stack # <<>> /\ bulk > MaxNodes

(* helpers the claims are stated with, independent of the walk's own operators *)
\* name contains s as a contiguous substring
HasSubstring(name, s) ==
    \E i \in 1..(Len(name) + 1), j \in 0..Len(name) : SubSeq(name, i, j) = s

\* a is n or one of the directories above n, read off the absolute paths
AboveOrSelf(a, n) ==
    LET pa == filePath(a)
        pn == filePath(n)
    IN  \/ a = Top
        \/ pa = pn
        \/ Len(pn) > Len(pa) /\ SubSeq(pn, 1, Len(pa) + 1) = pa \o <<"/">>

\* the trimmed, lowercased search text
Needle == Lower(Strip(search))

Matches(n) == HasSubstring(Lower(fileName(n)), Needle)

\* n matches or lies above a matching node
MatchOrAbove(n) == \E m \in Nodes : Matches(m) /\ AboveOrSelf(n, m)

\* the name filter has just run to completion
FilterRan == lastOp = "search" /\ pc = "idle"

\* absolute paths of the existing directories
DirPaths == {filePath(d) : d \in fsDirs}

\* C1 as stated: after the name filter has run, every row shown without manual
\* expansion matches S or lies above a matching node, and no node of a subtree
\* without a match is expanded.
C1_Original ==
    FilterRan =>
        /\ \A n \in Nodes : Shown(n) => MatchOrAbove(n)
        /\ \A n \in Nodes : ~MatchOrAbove(n) => n \notin expanded

\* C1 amended: after the name filter has run, every expanded node matches S or
\* lies above a matching node (subtrees without a match stay collapsed), and
\* every row shown without manual expansion is a child of the root or of such
\* an expanded node; it need not match itself.
C1_ShownBelowMatches ==
    FilterRan =>
        /\ \A n \in expanded : MatchOrAbove(n)
        /\ \A n \in Nodes :
               Shown(n) => parent(n) = root \/ MatchOrAbove(parent(n))

\* the filter ran with a non-empty needle, expanded a match, and a row that
\* neither matches nor lies above a match is shown
C1_Witness ==
    /\ FilterRan
    /\ Needle # <<>>
    /\ expanded # {}
    /\ \E n \in Nodes : Shown(n) /\ ~MatchOrAbove(n)

\* C3: set_root with a path that is not an existing directory shows a warning
\* naming the (absolute) path and changes neither the root, the search text,
\* the status message, the expanded set nor the pattern filter.
C3_InvalidPathNoChange ==
    [][(lastOp' = "set_root" /\ abspath(lastArg') \notin DirPaths) =>
          /\ warning' = sNotDir \o abspath(lastArg')
          /\ UNCHANGED <<root, search, status, expanded, nameFilters,
                         nameFilterDisables>>]_vars

\* set_root refused a path while a search had expanded rows
C3_Witness ==
    /\ lastOp = "set_root"
    /\ warning # <<>>
    /\ search # <<>>
    /\ expanded # {}
    /\ root # Cwd

\* C4: after set_root with an existing directory D the root is D's absolute
\* path, the search text is empty and the status bar shows "Root: " followed
\* by that path, whatever they were before; a cancelled picker changes none
\* of the three.
C4_SetRootResets ==
    [][/\ (lastOp' = "set_root" /\ abspath(lastArg') \in DirPaths) =>
              /\ root' # Invalid
              /\ filePath(root') = abspath(lastArg')
              /\ search' = <<>>
              /\ status' = [text |-> sRoot \o abspath(lastArg'), ms |-> 0]
       /\ lastOp' = "choose_cancel" => UNCHANGED <<root, search, status>>]_vars

\* set_root succeeded with a relative path and moved the root
C4_Witness ==
    /\ lastOp = "set_root"
    /\ lastArg = <<"s","r","c">>
    /\ root = Src
    /\ warning = <<>>

\* the parts of the dialog text between separators, trimmed, empty ones
\* dropped, in input order (stated by positions, not by splitting)
ExpectedPatterns(text) ==
    LET n == Len(text)
        IsSep(i) == i = 0 \/ i = n + 1 \/ text[i] = ";"
        PrevSep(i) == CHOOSE k \in 0..(i - 1) :
                          IsSep(k) /\ \A m \in (k + 1)..(i - 1) : ~IsSep(m)
        Trim(p) ==
            LET ink == {k \in 1..Len(p) : p[k] # " "} IN
            IF ink = {} THEN <<>>
            ELSE SubSeq(p, CHOOSE k \in ink : \A m \in ink : k <= m,
                           CHOOSE k \in ink : \A m \in ink : k >= m)
        piece == [i \in 1..(n + 1) |->
                     IF IsSep(i) THEN Trim(SubSeq(text, PrevSep(i) + 1, i - 1))
                     ELSE <<>>]
    IN  SelectSeq(piece, NonEmpty)

\* C5: accepting the filter dialog sets the name filters to the trimmed,
\* non-empty parts of the input in input order with "filter disables" off, or
\* clears the filter when there is no such part; the clear action empties the
\* name filters; rejecting the dialog leaves the filter as it was.
C5_DialogSetsFilters ==
    [][/\ lastOp' = "patterns" =>
              IF ExpectedPatterns(lastArg') = <<>>
              THEN nameFilters' = <<>> /\ nameFilterDisables' = TRUE
              ELSE nameFilters' = ExpectedPatterns(lastArg')
                   /\ nameFilterDisables' = FALSE
       /\ lastOp' = "clear" => nameFilters' = <<>>
       /\ lastOp' = "patterns_rejected" =>
              UNCHANGED <<nameFilters, nameFilterDisables>>]_vars

\* the dialog was accepted with two padded patterns and an empty part
C5_Witness ==
    /\ lastOp = "patterns"
    /\ Len(lastArg) > 8
    /\ Len(nameFilters) = 2
    /\ ~nameFilterDisables

sPy == <<".","p","y">>

EndsWithPy(name) ==
    Len(name) >= 3 /\ SubSeq(Lower(name), Len(name) - 2, Len(name)) = sPy

PyFilter == <<  <<"*",".","p","y">>  >>

\* C6 as stated: with the pattern filter ["*.py"] no entry other than a .py
\* entry is listed in any directory, and after clearing every entry listed
\* before any filter is listed again.
C6_Original ==
    /\ nameFilters = PyFilter =>
           \A n \in Nodes \ {Top} : Listed(n) => EndsWithPy(fileName(n))
    /\ lastOp = "clear" => \A n \in Nodes : Listed(n) <=> n \notin fsHidden

\* C6 amended: with the pattern filter ["*.py"] the entries listed in every
\* directory are its directories and the files whose name ends in .py
\* (compared case-insensitively); every other file is hidden.  After clearing,
\* the listed entries are those listed before any filter was applied.
C6_PyFilterHidesFiles ==
    /\ nameFilters = PyFilter =>
           \A n \in Nodes :
               Listed(n) <=> (n \notin fsHidden
                              /\ (isDir(n) \/ EndsWithPy(fileName(n))))
    /\ lastOp = "clear" => \A n \in Nodes : Listed(n) <=> n \notin fsHidden

\* ["*.py"] is in force, hiding b.md and keeping the directory src and R.PY
C6_Witness ==
    /\ nameFilters = PyFilter
    /\ lastOp = "patterns"
    /\ ~Listed(10)
    /\ Listed(Src)
    /\ Listed(6)

\* the filter was applied and then cleared
C6_ClearWitness == lastOp = "clear" /\ Listed(10) /\ status.text = sCleared

\* C7: copy_selected_path with a selected row puts that row's absolute path
\* on the clipboard and shows "Copied: <path>" for 2500 ms; with nothing
\* selected it changes neither clipboard nor status, nor root, search text,
\* filter or expanded set.
C7_Copy ==
    [][lastOp' = "copy" =>
          IF selection # <<>>
          THEN /\ clipboard' = filePath(selection[1])
               /\ status' = [text |-> sCopied \o filePath(selection[1]), ms |-> 2500]
          ELSE UNCHANGED <<clipboard, status, root, search, nameFilters,
                           nameFilterDisables, expanded>>]_vars

\* a file's path was copied
C7_Witness ==
    /\ lastOp = "copy"
    /\ selection = <<10>>
    /\ clipboard = <<"/","w","/","s","r","c","/","b",".","m","d">>
    /\ status.ms = 2500

\* the three edge operations of C8
NoSelectionOp == lastOp' \in {"copy", "reveal"} /\ selection = <<>>
EmptySearchRun ==
    \/ lastOp' = "search" /\ Lower(Strip(search')) = <<>>
    \/ lastOp' = "reset" /\ search # <<>>
EmptyDialogAccepted == lastOp' = "patterns" /\ lastArg' = <<>>

\* C8 as stated: copy or reveal without a selection, a name-filter run with
\* empty search text and accepting the filter dialog with empty input leave
\* root, expanded set, pattern filter, clipboard and status unchanged and show
\* no dialog.
C8_Original ==
    [][(NoSelectionOp \/ EmptySearchRun \/ EmptyDialogAccepted) =>
          /\ UNCHANGED <<root, expanded, nameFilters, nameFilterDisables,
                         clipboard, status>>
          /\ warning' = <<>>]_vars

\* C8 amended: none of the three shows a dialog or changes root or clipboard.
\* Copy or reveal without a selection changes nothing.  A name-filter run with
\* empty search text collapses every expanded node and changes nothing else.
\* Accepting the dialog with empty input clears the pattern filter (no name
\* filters, "filter disables" on) and shows "File pattern filter cleared" for
\* 2500 ms, leaving the expanded set unchanged.
C8_EdgeOperations ==
    [][/\ (NoSelectionOp \/ EmptySearchRun \/ EmptyDialogAccepted) =>
              /\ UNCHANGED <<root, clipboard, shell, selection>>
              /\ warning' = <<>>
       /\ NoSelectionOp =>
              UNCHANGED <<expanded, nameFilters, nameFilterDisables, status, search>>
       /\ EmptySearchRun =>
              /\ expanded' = {}
              /\ UNCHANGED <<nameFilters, nameFilterDisables, status>>
       /\ EmptyDialogAccepted =>
              /\ nameFilters' = <<>>
              /\ nameFilterDisables' = TRUE
              /\ status' = [text |-> sCleared, ms |-> 2500]
              /\ UNCHANGED <<expanded, search>>]_vars

\* the empty dialog text was accepted: the filter is off, the message shown
C8_Witness ==
    /\ lastOp = "patterns"
    /\ lastArg = <<>>
    /\ nameFilters = <<>>
    /\ status.text = sCleared

\* nodes popped so far whose lowercased name contains the needle
VisitedMatches == {v \in visited : HasSubstring(Lower(fileName(v)), needle)}

\* C9: a filter run with an empty needle leaves no node expanded; during and
\* at the end of a run with a non-empty needle the expanded nodes are exactly
\* the visited nodes whose lowercased name contains the needle and the nodes
\* above them up to the model's top.  The walk starts at the root and reaches
\* a node only through its parent directory.
C9_ExpandedExactly ==
    /\ (FilterRan /\ Needle = <<>>) => expanded = {}
    /\ pc = "walk" =>
           /\ needle = Needle
           /\ expanded = {a \in Nodes : \E v \in VisitedMatches : AboveOrSelf(a, v)}
           /\ \A v \in visited :
                  v = root \/ (parent(v) \in visited /\ isDir(parent(v)))
           /\ visited = {} => stack = <<root>>

\* a walk finished having expanded a.py and the directories above it while
\* its non-matching sibling b.md and the directory doc stayed collapsed
C9_Witness ==
    /\ pc = "walk"
    /\ ~LoopCond
    /\ root = Cwd
    /\ 9 \in expanded
    /\ Top \in expanded
    /\ 10 \in visited
    /\ 10 \notin expanded
    /\ Doc \notin expanded

\* C10: the root is always an existing directory; it is the working directory
\* at startup and changes only in a set_root whose path, made absolute, is an
\* existing directory, which becomes the root.
C10_RootIsDirectory ==
    /\ root = Cwd
    /\ [](root \in fsDirs)
    /\ [][root' # root =>
             /\ lastOp' = "set_root"
             /\ abspath(lastArg') \in DirPaths
             /\ filePath(root') = abspath(lastArg')]_vars

\* set_root moved the root to /w/src after a path had been copied
C10_Witness ==
    /\ lastOp = "set_root"
    /\ warning = <<>>
    /\ root = Src
    /\ clipboard # <<>>
    /\ status = RootStatus(filePath(Src))

====
